---- MODULE Spec2Model ----
\* Model of BerlWebSocketClient (src/src_py/websocket_client.py): one client
\* object, the caller task that drives its API, the receive-loop task
\* (listen_for_messages) and the peer behind the transport handle.
\* SpecTest models the exchange test that drives the client
\* (src/test/test_python_client.py, test_message_exchange) with its
\* collect_responses task, SpecSession a caller that connects once, and
\* SpecMode the client's own modes (run_demo, main).
EXTENDS Naturals, Sequences, FiniteSets, TLC

\* ---------------------------------------------------------------- bounds
MaxCalls == 3         \* API calls (connect, disconnect, send_message) the caller makes
MaxQueue == 2         \* frames buffered at a time that recv has not handed out yet

\* ---------------------------------------------------------------- JSON values
\* A value stored under a key of a Python dict / JSON object. "absent" is a
\* key that is missing, "null" is Python None / JSON null.
Absent == [t |-> "absent", s |-> "", n |-> 0]
Null == [t |-> "null", s |-> "", n |-> 0]
S(x) == [t |-> "str", s |-> x, n |-> 0]
N(k) == [t |-> "num", s |-> "", n |-> k]
\* A nested dict, held by the text str() gives for it.
D(x) == [t |-> "dict", s |-> x, n |-> 0]

Keys == {"type", "command", "timestamp", "data", "original", "response"}
EmptyDict == [k \in Keys |-> Absent]

\* dict.get(key): the value, or None when the key is missing.
Get(d, k) == IF d[k].t = "absent" THEN Null ELSE d[k]

\* str(n) for the integers the model uses.
Decimal(k) == CASE k = 7 -> "7" [] k = 42 -> "42" [] OTHER -> "?"

\* str(v) / f"{v}" of a value read with dict.get.
Fmt(v) == CASE v.t = "str" -> v.s
            [] v.t = "num" -> Decimal(v.n)
            [] v.t = "dict" -> v.s
            [] OTHER -> "None"

\* A message as handle_message / send_message see it: a dict, or a non-dict
\* value (a raw string, a number).
DictMsg(d) == [isdict |-> TRUE, d |-> d, v |-> Null]
PlainMsg(v) == [isdict |-> FALSE, d |-> EmptyDict, v |-> v]
NoMsg == [isdict |-> FALSE, d |-> EmptyDict, v |-> Absent]

\* A frame: text that is a JSON object, a JSON scalar, or not JSON; text that
\* is one integer of more digits than int() converts (4300); or a binary
\* frame whose bytes are not UTF-8.
ObjText(d) == [kind |-> "obj", d |-> d, v |-> Null]
ScalarText(v) == [kind |-> "scalar", d |-> EmptyDict, v |-> v]
RawText(s) == [kind |-> "raw", d |-> EmptyDict, v |-> S(s)]
DigitsText == [kind |-> "digits", d |-> EmptyDict, v |-> S("5000 digits")]
BinaryFrame == [kind |-> "binary", d |-> EmptyDict, v |-> S("80 61 62 63")]
NoText == [kind |-> "none", d |-> EmptyDict, v |-> Absent]

\* send_message lines 54-57: json.dumps for a dict (None becomes null, keys
\* are kept), str() otherwise (digits are JSON text, other strings are not).
EncodeMessage(m) ==
    IF m.isdict THEN ObjText(m.d)
    ELSE IF m.v.t = "num" THEN ScalarText(m.v)
    ELSE RawText(Fmt(m.v))

\* line 73: json.loads raises an error that is not a JSONDecodeError: a
\* ValueError for the digits, a UnicodeDecodeError for the bytes.
LoadsRaises(x) == x.kind \in {"digits", "binary"}

\* listen_for_messages lines 71-77: json.loads, and on JSONDecodeError the
\* text itself. A frame json.loads raises another error on yields no message.
DecodeText(x) ==
    CASE x.kind = "obj" -> DictMsg(x.d)
      [] x.kind = "scalar" -> PlainMsg(x.v)
      [] x.kind = "raw" -> PlainMsg(x.v)
      [] OTHER -> NoMsg

\* handle_message lines 89-100: the reply it passes to send_message, or NoMsg.
PongReply(m) ==
    DictMsg([EmptyDict EXCEPT !["type"] = S("pong"),
                              !["timestamp"] = Get(m.d, "timestamp")])

EchoReply(m) ==
    DictMsg([EmptyDict EXCEPT !["type"] = S("echo_response"),
                              !["original"] = Get(m.d, "data"),
                              !["response"] = S("Echo: " \o Fmt(Get(m.d, "data")))])

HandleReplyEchoFirst(m) ==
    IF m.isdict
    THEN IF Get(m.d, "command") = S("echo") THEN EchoReply(m)
         ELSE IF Get(m.d, "type") = S("ping") THEN PongReply(m)
         ELSE NoMsg
    ELSE NoMsg

HandleReplyNoPong(m) ==
    IF m.isdict /\ Get(m.d, "type") # S("ping") /\ Get(m.d, "command") = S("echo")
    THEN EchoReply(m)
    ELSE NoMsg

HandleReplyNoEcho(m) ==
    IF m.isdict /\ Get(m.d, "type") = S("ping") THEN PongReply(m) ELSE NoMsg

HandleReplyAnyType(m) ==
    IF m.isdict
    THEN IF Get(m.d, "type") # Null THEN PongReply(m)
         ELSE IF Get(m.d, "command") # Null THEN EchoReply(m)
         ELSE NoMsg
    ELSE NoMsg

HandleReply(m) ==
    IF m.isdict
    THEN IF Get(m.d, "type") = S("ping") THEN PongReply(m)
         ELSE IF Get(m.d, "command") = S("echo") THEN EchoReply(m)
         ELSE NoMsg
    ELSE NoMsg

\* ---------------------------------------------------------------- inputs
Ping(ts) == [EmptyDict EXCEPT !["type"] = S("ping"), !["timestamp"] = ts]
Echo(d) == [EmptyDict EXCEPT !["command"] = S("echo"), !["data"] = d]

\* Frames the peer may deliver.
InTexts ==
    { ObjText(Ping(S("T1"))),
      ObjText(Ping(Absent)),
      ObjText(Echo(S("D1"))),
      ObjText(Echo(N(42))),
      ObjText([Ping(S("T1")) EXCEPT !["command"] = S("echo"), !["data"] = S("D1")]),
      ObjText([EmptyDict EXCEPT !["command"] = S("status")]),
      ScalarText(N(7)),
      RawText("not json"),
      DigitsText,
      BinaryFrame }

\* The frames the peer uses in one run: one kind of frame from InTexts, mixed
\* with greeting frames (which draw no reply). Dispatch keeps nothing from one
\* frame to the next, so one kind per run covers every kind.
Greeting == ObjText([EmptyDict EXCEPT !["type"] = S("greeting")])
Repertoires == {{x, Greeting} : x \in InTexts}

\* Messages the caller passes to send_message (send_test_messages line 105,
\* interactive_mode line 132 with a JSON number typed in).
OutMsgs ==
    { DictMsg([EmptyDict EXCEPT !["type"] = S("greeting")]),
      PlainMsg(N(42)) }

Handles == 1..MaxCalls
None == 0
Tasks == {"caller", "listener"}
NoWrite == [h |-> None, text |-> NoText]

\* ---------------------------------------------------------------- state
VARIABLES
    websocket,   \* self.websocket: None or the handle connect stored
    running,     \* self.running
    handles,     \* transport state of each handle: unopened/open/closing/closed
    inbox,       \* frames each handle has received and recv has not returned yet
    inflight,    \* per task: the websocket.send it is suspended in, or NoWrite
    pcC,         \* caller task: idle / connecting / closing / sending
    pcL,         \* receive-loop task: none / created / recv / sending / done / cancelled
    lh,          \* the handle the receive loop's outstanding recv was called on
    call,        \* the API call the caller made last
    ret,         \* what that call returned: "-" (pending), "True", "False", "None"
    log,         \* per task: the last outcome line it logged (connect, disconnect,
                 \* send and loop-end lines; the Connecting / Received /
                 \* Processing info lines are left out)
    tries,       \* per task: websocket.send calls made by its last send_message
    disp,        \* the message the receive loop dispatched last, and its reply
    opens,       \* websockets.connect calls made so far
    closeCalls,  \* websocket.close calls made so far
    nCalls,      \* API calls the caller made so far
    repertoire,  \* the frames the peer sends in this run
    closedBy,    \* per handle: who closed it first, "client" or "peer" ("-": nobody)
    pcT,         \* the script that drives the client. test_message_exchange:
                 \* start / connect / exchange / teardown / finished; a client
                 \* mode: start / connecting / tests / interactive / closing / exit
    sent,        \* test messages the script sent so far
    pcW,         \* collect_responses task: none / created / waiting (in
                 \* wait_for) / received (recv returned, the task has not
                 \* resumed) / cancelling (cancel() was called on it, the task
                 \* has not resumed) / done / failed / cancelled
    responses,   \* test_message_exchange: the responses list
    arrivals,    \* every frame the peer delivered to the test's handle, in order
    got,         \* the frame recv returned that collect_responses has not
                 \* taken up yet, or NoText
    mode,        \* args.mode of the client's main: demo / test / interactive
                 \* ("-": main was not started)
    waits,       \* the outcome of each wait_for(recv) the collector made, in order
    result       \* what test_message_exchange returned: "-", "True", "False"

\* The state of the driving script (test/test_python_client.py, or a client
\* mode of run_demo / main).
tvars == <<pcT, sent, pcW, responses, arrivals, got, mode, waits, result>>

vars == <<websocket, running, handles, inbox, inflight, pcC, pcL, lh, call,
          ret, log, tries, disp, opens, closeCalls,
          nCalls, repertoire, closedBy, tvars>>

NoDispatch == [m |-> NoMsg, reply |-> NoMsg, written |-> 0, done |-> TRUE]

\* __init__ lines 20-24; no task exists, nothing was opened.
Init ==
    /\ websocket = None
    /\ running = FALSE
    /\ handles = [h \in Handles |-> "unopened"]
    /\ inbox = [h \in Handles |-> <<>>]
    /\ inflight = [t \in Tasks |-> NoWrite]
    /\ pcC = "idle"
    /\ pcL = "none"
    /\ lh = None
    /\ call = "-"
    /\ ret = "-"
    /\ log = [t \in Tasks |-> "-"]
    /\ tries = [t \in Tasks |-> 0]
    /\ disp = NoDispatch
    /\ opens = 0
    /\ closeCalls = 0
    /\ nCalls = 0
    /\ repertoire \in Repertoires
    /\ closedBy = [h \in Handles |-> "-"]
    /\ pcT = "start"
    /\ sent = 0
    /\ pcW = "none"
    /\ responses = <<>>
    /\ arrivals = <<>>
    /\ got = NoText
    /\ mode = "-"
    /\ waits = <<>>
    /\ result = "-"

\* The handle websockets.connect returns next: one never opened before.
FreshHandle == CHOOSE h \in Handles : handles[h] = "unopened" /\ \A g \in Handles : handles[g] = "unopened" => h <= g

\* A handle the client still uses: self.websocket, or the one the receive
\* loop's outstanding recv was called on. Nothing reads or writes any other.
Followed(h, ws, pl, l) == h = ws \/ (pl = "recv" /\ h = l)

\* Frames buffered on a handle that is no longer followed can never be
\* returned by recv; the model drops them.
Forget(box, ws, pl, l) == [h \in Handles |-> IF Followed(h, ws, pl, l) THEN box[h] ELSE <<>>]

\* ---------------------------------------------------------------- connect
\* connect lines 26-32: the call of websockets.connect, a suspension point.
connect_call ==
    /\ pcC = "idle"
    /\ nCalls < MaxCalls
    /\ pcC' = "connecting"
    /\ call' = "connect"
    /\ ret' = "-"
    /\ opens' = opens + 1
    /\ nCalls' = nCalls + 1
    /\ UNCHANGED <<websocket, running, handles, inbox, inflight, pcL, lh,
                   log, tries, disp, closeCalls, repertoire, closedBy>>

\* lines 32-35: websockets.connect returned a handle.
ConnectSucceeded ==
    /\ handles' = [handles EXCEPT ![FreshHandle] = "open"]
    /\ websocket' = FreshHandle
    /\ running' = TRUE
    /\ log' = [log EXCEPT !["caller"] = "Connected to WebSocket server"]
    /\ ret' = "True"
    /\ pcC' = "idle"
    /\ opens' = opens
    /\ inbox' = Forget(inbox, FreshHandle, pcL, lh)

ConnectFailedRetry ==
    /\ log' = [log EXCEPT !["caller"] = "Failed to connect"]
    /\ IF opens < MaxCalls + 1
       THEN ret' = "-" /\ pcC' = "connecting" /\ opens' = opens + 1
       ELSE ret' = "False" /\ pcC' = "idle" /\ opens' = opens
    /\ UNCHANGED <<websocket, running, handles, inbox>>

\* lines 36-38: websockets.connect raised.
ConnectFailed ==
    /\ log' = [log EXCEPT !["caller"] = "Failed to connect"]
    /\ ret' = "False"
    /\ pcC' = "idle"
    /\ opens' = opens
    /\ UNCHANGED <<websocket, running, handles, inbox>>

connect_return ==
    /\ pcC = "connecting"
    /\ \/ ConnectSucceeded
       \/ ConnectFailed
    /\ UNCHANGED <<inflight, pcL, lh, call, tries, disp, closeCalls,
                   nCalls, repertoire, closedBy>>

\* ---------------------------------------------------------------- disconnect
\* What websocket.close() does to a handle when it is called.
CloseBegins(st) == IF st = "open" THEN "closing" ELSE st

\* lines 42-44 up to the suspension in websocket.close().
DisconnectBegins ==
    /\ running' = FALSE
    /\ closeCalls' = closeCalls + 1
    /\ handles' = [handles EXCEPT ![websocket] = CloseBegins(@)]
    /\ closedBy' = [closedBy EXCEPT ![websocket] = IF handles[websocket] = "open" THEN "client" ELSE @]
    /\ websocket' = websocket

disconnect_call ==
    /\ pcC = "idle"
    /\ nCalls < MaxCalls
    /\ nCalls' = nCalls + 1
    /\ call' = "disconnect"
    /\ IF websocket # None
       THEN /\ DisconnectBegins
            /\ pcC' = "closing"
            /\ ret' = "-"
       ELSE /\ pcC' = "idle"
            /\ ret' = "None"
            /\ UNCHANGED <<websocket, running, handles, closeCalls, closedBy>>
    /\ UNCHANGED <<inbox, inflight, pcL, lh, log, tries, disp,
                   opens, repertoire>>

DisconnectEndsForgetsHandle ==
    /\ handles' = [handles EXCEPT ![websocket] = "closed"]
    /\ websocket' = None
    /\ running' = running
    /\ log' = [log EXCEPT !["caller"] = "Disconnected from WebSocket server"]

\* lines 44-45: websocket.close() returned, the handle is closed.
DisconnectEnds ==
    /\ handles' = [handles EXCEPT ![websocket] = "closed"]
    /\ websocket' = websocket
    /\ running' = running
    /\ log' = [log EXCEPT !["caller"] = "Disconnected from WebSocket server"]

disconnect_return ==
    /\ pcC = "closing"
    /\ DisconnectEnds
    /\ pcC' = "idle"
    /\ ret' = "None"
    /\ UNCHANGED <<inbox, inflight, pcL, lh, call, tries, disp,
                   opens, closeCalls, nCalls, repertoire, closedBy>>

\* ---------------------------------------------------------------- send_message
\* websocket.send suspends only on a handle that is open; on any other handle
\* it raises at once.
WriteSuspends == websocket # None /\ handles[websocket] = "open"

\* lines 49-59 up to the suspension in websocket.send (t is the calling task).
SendBegins(t, m) ==
    /\ tries' = [tries EXCEPT ![t] = IF websocket = None THEN 0 ELSE 1]
    /\ IF WriteSuspends
       THEN /\ inflight' = [inflight EXCEPT ![t] = [h |-> websocket, text |-> EncodeMessage(m)]]
            /\ log' = log
       ELSE /\ inflight' = inflight
            /\ log' = [log EXCEPT ![t] = IF websocket = None THEN "Not connected to server"
                                          ELSE "Failed to send message"]

\* lines 59-62: websocket.send returned (the frame is on the wire) or raised.
SendEnds(t) ==
    /\ inflight' = [inflight EXCEPT ![t] = NoWrite]
    /\ tries' = tries
    /\ IF handles[inflight[t].h] = "open"
       THEN log' = [log EXCEPT ![t] = "Sent"]
       ELSE log' = [log EXCEPT ![t] = "Failed to send message"]

\* What send_message hands back to its caller, on success and on failure.
SendResult(failed) == "None"

send_message_call(m) ==
    /\ pcC = "idle"
    /\ nCalls < MaxCalls
    /\ nCalls' = nCalls + 1
    /\ call' = "send_message"
    /\ SendBegins("caller", m)
    /\ IF WriteSuspends
       THEN pcC' = "sending" /\ ret' = "-"
       ELSE pcC' = "idle" /\ ret' = SendResult(TRUE)
    /\ UNCHANGED <<websocket, running, handles, inbox, pcL, lh, disp,
                   opens, closeCalls, repertoire, closedBy>>

send_message_return ==
    /\ pcC = "sending"
    /\ SendEnds("caller")
    /\ pcC' = "idle"
    /\ ret' = SendResult(handles[inflight["caller"].h] # "open")
    /\ UNCHANGED <<websocket, running, handles, inbox, pcL, lh, call, disp,
                   opens, closeCalls, nCalls, repertoire, closedBy>>

\* ---------------------------------------------------------------- receive loop
LoopCondIgnoresRunning == websocket # None

\* line 67: the loop condition.
LoopCond == running /\ websocket # None

AfterDispatchStopsOnReply(x) ==
    IF HandleReply(DecodeText(x)) # NoMsg THEN "done" ELSE IF LoopCond THEN "recv" ELSE "done"

\* Where the loop is after it dispatched frame x: back at line 67, and from
\* there in the next recv or out of the loop.
AfterDispatch(x) == IF LoopCond THEN "recv" ELSE "done"

\* Callers create the task right after connect returned True (lines 151, 185, 192).
listen_task_create ==
    /\ pcC = "idle"
    /\ pcL = "none"
    /\ call = "connect"
    /\ ret = "True"
    /\ pcL' = "created"
    /\ UNCHANGED <<websocket, running, handles, inbox, inflight, pcC, lh, call,
                   ret, log, tries, disp, opens, closeCalls,
                   nCalls, repertoire, closedBy>>

\* lines 66-68: the task's first run, up to its first recv.
listen_start ==
    /\ pcL = "created"
    /\ pcL' = IF LoopCond THEN "recv" ELSE "done"
    /\ lh' = IF LoopCond THEN websocket ELSE lh
    /\ UNCHANGED <<websocket, running, handles, inbox, inflight, pcC, call,
                   ret, log, tries, disp, opens, closeCalls,
                   nCalls, repertoire, closedBy>>

\* handle_message lines 91, 96 and line 77: the loop awaits handle_message,
\* which awaits send_message; while the write is outstanding the loop stays
\* suspended in it.
AfterReplyStarted == "sending"

RecvFrameNewest(box) == box[Len(box)]

\* line 68: recv returns the frame the handle has buffered longest ...
RecvFrame(box) == Head(box)

\* ... and takes it out of the buffer.
RecvRest(box) == Tail(box)

\* lines 81-82: an error that is not ConnectionClosed leaves the loop.
AfterLoadError(x) == "done"

\* lines 68-77 and handle_message 84-100: recv returns a frame, it is decoded
\* and dispatched; a reply goes through send_message. Lines 73 and 81-82: when
\* json.loads raises an error other than JSONDecodeError nothing is
\* dispatched, the error is logged and the loop is left.
listen_recv_message ==
    /\ pcL = "recv"
    /\ inbox[lh] # <<>>
    /\ LET x == RecvFrame(inbox[lh])
           m == DecodeText(x)
           r == HandleReply(m)
           pc == IF LoadsRaises(x) THEN AfterLoadError(x)
                 ELSE IF r # NoMsg /\ WriteSuspends THEN AfterReplyStarted
                 ELSE AfterDispatch(x)
           l == IF pc = "recv" THEN websocket ELSE lh
       IN /\ pcL' = pc
          /\ lh' = l
          /\ inbox' = Forget([inbox EXCEPT ![lh] = RecvRest(@)], websocket, pc, l)
          /\ IF LoadsRaises(x)
             THEN /\ log' = [log EXCEPT !["listener"] = "Error listening for messages"]
                  /\ UNCHANGED <<disp, tries, inflight>>
             ELSE /\ disp' = [m |-> m, reply |-> r, written |-> 0, done |-> pc # "sending"]
                  /\ IF r = NoMsg
                     THEN /\ tries' = [tries EXCEPT !["listener"] = 0]
                          /\ UNCHANGED <<inflight, log>>
                     ELSE SendBegins("listener", r)
    /\ UNCHANGED <<websocket, running, handles, pcC, call, ret,
                   opens, closeCalls, nCalls, repertoire, closedBy>>

\* send_message lines 59-62 inside handle_message, then back to line 67.
listen_send_return ==
    /\ pcL = "sending"
    /\ SendEnds("listener")
    /\ disp' = [disp EXCEPT !.written = IF handles[inflight["listener"].h] = "open" THEN 1 ELSE 0,
                            !.done = TRUE]
    /\ pcL' = AfterDispatch(EncodeMessage(disp.m))
    /\ lh' = IF AfterDispatch(EncodeMessage(disp.m)) = "recv" THEN websocket ELSE lh
    /\ inbox' = Forget(inbox, websocket, AfterDispatch(EncodeMessage(disp.m)),
                       IF AfterDispatch(EncodeMessage(disp.m)) = "recv" THEN websocket ELSE lh)
    /\ UNCHANGED <<websocket, running, handles, pcC, call, ret,
                   opens, closeCalls, nCalls, repertoire, closedBy>>

\* lines 79-80: recv raises ConnectionClosed once the handle is closed and
\* nothing is left to return.
listen_recv_closed ==
    /\ pcL = "recv"
    /\ inbox[lh] = <<>>
    /\ handles[lh] = "closed"
    /\ pcL' = "done"
    /\ log' = [log EXCEPT !["listener"] = "Connection closed by server"]
    /\ UNCHANGED <<websocket, running, handles, inbox, inflight, pcC, lh, call,
                   ret, tries, disp, opens, closeCalls,
                   nCalls, repertoire, closedBy>>

\* listen_task.cancel() after disconnect (lines 164-165, 188-189, 194-195):
\* CancelledError ends the task at the point it is suspended in.
listen_task_cancel ==
    /\ pcC = "idle"
    /\ call = "disconnect"
    /\ pcL \in {"created", "recv", "sending"}
    /\ pcL' = "cancelled"
    /\ inflight' = [inflight EXCEPT !["listener"] = NoWrite]
    /\ inbox' = Forget(inbox, websocket, "cancelled", lh)
    /\ UNCHANGED <<websocket, running, handles, pcC, lh, call,
                   ret, log, tries, disp, opens, closeCalls,
                   nCalls, repertoire, closedBy>>

\* ---------------------------------------------------------------- the peer
\* Frames the transport has buffered and recv has not handed out, counted
\* over all handles.
Buffered(box) ==
    Cardinality({p \in Handles \X (1..MaxQueue) : p[2] <= Len(box[p[1]])})

\* The peer sends a text frame; the transport appends it to the handle's
\* buffer, behind the frames recv has not handed out yet. Only a handle the
\* client still reads from is followed: self.websocket, or the one the receive
\* loop is suspended on.
peer_deliver(h, x) ==
    /\ handles[h] \in {"open", "closing"}
    /\ Followed(h, websocket, pcL, lh)
    /\ Buffered(inbox) < MaxQueue
    /\ inbox' = [inbox EXCEPT ![h] = Append(@, x)]
    /\ UNCHANGED <<websocket, running, handles, inflight, pcC, pcL, lh, call,
                   ret, log, tries, disp, opens, closeCalls,
                   nCalls, repertoire, closedBy>>

\* The peer closes the connection, or the transport fails it on a protocol error.
peer_close(h) ==
    /\ handles[h] = "open"
    /\ Followed(h, websocket, pcL, lh)
    /\ handles' = [handles EXCEPT ![h] = "closed"]
    /\ closedBy' = [closedBy EXCEPT ![h] = "peer"]
    /\ UNCHANGED <<websocket, running, inbox, inflight, pcC, pcL, lh, call,
                   ret, log, tries, disp, opens, closeCalls,
                   nCalls, repertoire>>

\* ---------------------------------------------------------------- specification
Next ==
    \/ connect_call /\ UNCHANGED tvars
    \/ connect_return /\ UNCHANGED tvars
    \/ disconnect_call /\ UNCHANGED tvars
    \/ disconnect_return /\ UNCHANGED tvars
    \/ \E m \in OutMsgs : send_message_call(m) /\ UNCHANGED tvars
    \/ send_message_return /\ UNCHANGED tvars
    \/ listen_task_create /\ UNCHANGED tvars
    \/ listen_start /\ UNCHANGED tvars
    \/ listen_recv_message /\ UNCHANGED tvars
    \/ listen_send_return /\ UNCHANGED tvars
    \/ listen_recv_closed /\ UNCHANGED tvars
    \/ listen_task_cancel /\ UNCHANGED tvars
    \/ \E h \in Handles, x \in repertoire : peer_deliver(h, x) /\ UNCHANGED tvars
    \/ \E h \in Handles : peer_close(h) /\ UNCHANGED tvars

Spec == Init /\ [][Next]_vars

\* ---------------------------------------------------------------- test_message_exchange
\* test/test_python_client.py lines 27-75: the test connects, starts the
\* collect_responses task, sends its test messages, cancels the task,
\* disconnects and reports. The receive loop is not started in this flow.
\* asyncio.wait_for is the one of Python 3.11: it runs recv in a task of its
\* own and, cancelled after that task is done, returns its result.

\* lines 37-42 (the keys message and request_id, which handle_message never
\* reads, are left out).
test_messages ==
    << DictMsg(Ping(S("2025-01-01T00:00:00Z"))),
       DictMsg(Echo(S("test echo"))),
       DictMsg([EmptyDict EXCEPT !["command"] = S("status")]),
       DictMsg([EmptyDict EXCEPT !["type"] = S("greeting")]) >>

\* json.loads accepts the frame (line 51); on any other text it raises.
IsJson(x) == x.kind \in {"obj", "scalar"}

\* line 49: the collector's loop condition.
CollectMore(rs) == Len(rs) < Len(test_messages)

\* The outcome of the wait the collector made last becomes o.
Resolve(ws, o) == [ws EXCEPT ![Len(ws)] = o]

\* lines 31-32: the call of client.connect().
test_connect_call ==
    /\ pcT = "start"
    /\ pcC = "idle"
    /\ pcT' = "connect"
    /\ pcC' = "connecting"
    /\ call' = "connect"
    /\ ret' = "-"
    /\ opens' = opens + 1
    /\ UNCHANGED <<websocket, running, handles, inbox, inflight, pcL, lh,
                   log, tries, disp, closeCalls, nCalls, repertoire, closedBy,
                   sent, pcW, responses, arrivals, mode, got, waits, result>>

\* lines 32-57: connect returned; on True the collector task is created, on
\* False the test returns False.
test_connect_return ==
    /\ pcT = "connect"
    /\ pcC = "connecting"
    /\ \/ ConnectSucceeded /\ pcT' = "exchange" /\ pcW' = "created" /\ result' = result
       \/ ConnectFailed /\ pcT' = "finished" /\ pcW' = pcW /\ result' = "False"
    /\ UNCHANGED <<inflight, pcL, lh, call, tries, disp, closeCalls, nCalls,
                   repertoire, closedBy, sent, responses, arrivals, mode, got, waits>>

\* lines 60-61: the next test message goes to client.send_message.
test_send_call ==
    /\ pcT = "exchange"
    /\ pcC = "idle"
    /\ sent < Len(test_messages)
    /\ sent' = sent + 1
    /\ call' = "send_message"
    /\ SendBegins("caller", test_messages[sent + 1])
    /\ IF WriteSuspends
       THEN pcC' = "sending" /\ ret' = "-"
       ELSE pcC' = "idle" /\ ret' = SendResult(TRUE)
    /\ UNCHANGED <<websocket, running, handles, inbox, pcL, lh, disp, opens,
                   closeCalls, nCalls, repertoire, closedBy,
                   pcT, pcW, responses, arrivals, mode, got, waits, result>>

\* lines 61-62: send_message returned; the test sleeps before its next step.
test_send_return ==
    /\ pcT = "exchange"
    /\ pcC = "sending"
    /\ SendEnds("caller")
    /\ pcC' = "idle"
    /\ ret' = SendResult(handles[inflight["caller"].h] # "open")
    /\ UNCHANGED <<websocket, running, handles, inbox, pcL, lh, call, disp,
                   opens, closeCalls, nCalls, repertoire, closedBy, tvars>>

\* line 66: listen_task.cancel() requests the cancellation; the task learns
\* of it when the event loop runs it next. A task whose recv has returned
\* already (wait_for then swallows the cancellation, see collect_append) and
\* a task that has finished are left as they are.
CollectorCancelled ==
    pcW' = IF pcW \in {"created", "waiting"} THEN "cancelling" ELSE pcW

\* lines 65-68: after the last send and the sleep, the collector is cancelled
\* and client.disconnect() is called.
test_teardown ==
    /\ pcT = "exchange"
    /\ pcC = "idle"
    /\ sent = Len(test_messages)
    /\ CollectorCancelled
    /\ DisconnectBegins
    /\ call' = "disconnect"
    /\ pcC' = "closing"
    /\ ret' = "-"
    /\ pcT' = "teardown"
    /\ UNCHANGED <<inbox, inflight, pcL, lh, log, tries, disp, opens, nCalls,
                   repertoire, sent, responses, arrivals, mode, got, waits, result>>

TestPassedAlways(rs) == "True"

\* lines 70-75: what the test returns.
TestPassed(rs) == IF Len(rs) = Len(test_messages) THEN "True" ELSE "False"

\* lines 68-75: disconnect returned, the test reports.
test_report ==
    /\ pcT = "teardown"
    /\ pcC = "closing"
    /\ DisconnectEnds
    /\ pcC' = "idle"
    /\ ret' = "None"
    /\ result' = TestPassed(responses)
    /\ pcT' = "finished"
    /\ UNCHANGED <<inbox, inflight, pcL, lh, call, tries, disp, opens,
                   closeCalls, nCalls, repertoire, closedBy,
                   sent, pcW, responses, arrivals, mode, got, waits>>

\* lines 48-50: the task's first run, up to its first wait_for(recv).
collect_start ==
    /\ pcW = "created"
    /\ pcW' = IF CollectMore(responses) THEN "waiting" ELSE "done"
    /\ waits' = IF CollectMore(responses) THEN Append(waits, "pending") ELSE waits
    /\ UNCHANGED <<websocket, running, handles, inbox, inflight, pcC, pcL, lh,
                   call, ret, log, tries, disp, opens, closeCalls, nCalls,
                   repertoire, closedBy, pcT, sent, responses, arrivals, mode, got, result>>

\* The wait the collector made last has not ended.
WaitOpen == waits # <<>> /\ waits[Len(waits)] = "pending"

\* line 50: recv returns a frame in the task wait_for runs it in; the frame
\* has left the handle's buffer, the collector has not resumed yet. This also
\* happens when cancel() was called and the collector has not run since.
collect_recv ==
    /\ pcW \in {"waiting", "cancelling"}
    /\ WaitOpen
    /\ inbox[websocket] # <<>>
    /\ inbox' = [inbox EXCEPT ![websocket] = RecvRest(@)]
    /\ got' = RecvFrame(inbox[websocket])
    /\ pcW' = "received"
    /\ waits' = Resolve(waits, "message")
    /\ UNCHANGED <<websocket, running, handles, inflight, pcC, pcL, lh,
                   call, ret, log, tries, disp, opens, closeCalls, nCalls,
                   repertoire, closedBy, pcT, sent, responses, arrivals, mode, result>>

\* lines 49-51, 54-55: the collector resumes with the frame wait_for returns
\* (also when it was cancelled meanwhile: wait_for returns the result of a
\* recv that is done and drops the cancellation). json.loads parses it and
\* the value is appended, or it raises and the collector ends.
collect_append ==
    /\ pcW = "received"
    /\ LET rs == IF IsJson(got) THEN Append(responses, DecodeText(got)) ELSE responses
       IN /\ responses' = rs
          /\ pcW' = IF ~IsJson(got) THEN "failed"
                    ELSE IF CollectMore(rs) THEN "waiting" ELSE "done"
          /\ waits' = IF IsJson(got) /\ CollectMore(rs)
                      THEN Append(waits, "pending")
                      ELSE waits
    /\ got' = NoText
    /\ UNCHANGED <<websocket, running, handles, inbox, inflight, pcC, pcL, lh,
                   call, ret, log, tries, disp, opens, closeCalls, nCalls,
                   repertoire, closedBy, pcT, sent, arrivals, mode, result>>

\* line 66 taking effect: the collector resumes with CancelledError while its
\* recv has not returned (or before its first run) and ends.
collect_cancelled ==
    /\ pcW = "cancelling"
    /\ pcW' = "cancelled"
    /\ waits' = IF WaitOpen THEN Resolve(waits, "cancelled") ELSE waits
    /\ UNCHANGED <<websocket, running, handles, inbox, inflight, pcC, pcL, lh,
                   call, ret, log, tries, disp, opens, closeCalls, nCalls,
                   repertoire, closedBy, pcT, sent, responses, arrivals, mode, got, result>>

\* When the timer of wait_for may fire.
TimerNeverFires == FALSE
TimerArmedWhenCancelled == pcW \in {"waiting", "cancelling"}

\* line 50: wait_for arms a timer when the wait starts; it has no effect once
\* recv has returned or the wait was cancelled.
TimerArmed == pcW = "waiting"

\* lines 50, 52-53: the timeout passed first; TimeoutError ends the collector.
collect_timeout ==
    /\ TimerArmed
    /\ pcW' = "done"
    /\ waits' = Resolve(waits, "timeout")
    /\ UNCHANGED <<websocket, running, handles, inbox, inflight, pcC, pcL, lh,
                   call, ret, log, tries, disp, opens, closeCalls, nCalls,
                   repertoire, closedBy, pcT, sent, responses, arrivals, mode, got, result>>

\* lines 50, 54-55: recv raised ConnectionClosed (the handle is closed and
\* nothing is left to return); the collector prints the error and ends, also
\* when cancel() was called and the collector has not run since.
collect_closed ==
    /\ pcW \in {"waiting", "cancelling"}
    /\ WaitOpen
    /\ inbox[websocket] = <<>>
    /\ handles[websocket] = "closed"
    /\ pcW' = "failed"
    /\ waits' = Resolve(waits, "closed")
    /\ UNCHANGED <<websocket, running, handles, inbox, inflight, pcC, pcL, lh,
                   call, ret, log, tries, disp, opens, closeCalls, nCalls,
                   repertoire, closedBy, pcT, sent, responses, arrivals, mode, got, result>>

\* The peer's frame, also recorded in the order it arrived.
test_peer_deliver(h, x) ==
    /\ peer_deliver(h, x)
    /\ arrivals' = Append(arrivals, x)
    /\ UNCHANGED <<pcT, sent, pcW, responses, got, mode, waits, result>>

NextTest ==
    \/ test_connect_call
    \/ test_connect_return
    \/ test_send_call
    \/ test_send_return
    \/ test_teardown
    \/ test_report
    \/ collect_start
    \/ collect_recv
    \/ collect_append
    \/ collect_cancelled
    \/ collect_timeout
    \/ collect_closed
    \/ \E h \in Handles, x \in repertoire : test_peer_deliver(h, x)
    \/ \E h \in Handles : peer_close(h) /\ UNCHANGED tvars

SpecTest == Init /\ [][NextTest]_vars

\* A step the collector task takes when the event loop resumes it.
CollectorRuns == collect_append \/ collect_cancelled

\* The event loop's clock advances: an armed timer fires unless the wait has
\* ended before; and the event loop runs a task that is ready.
SpecTestFair == SpecTest /\ WF_vars(collect_timeout) /\ WF_vars(CollectorRuns)

\* ---------------------------------------------------------------- one session
\* Every caller in the repository connects a client object once (run_demo
\* line 146, main lines 184 and 191, the tests): the client as in Spec, with a
\* caller that makes one connect call.
NextSession ==
    \/ opens = 0 /\ connect_call /\ UNCHANGED tvars
    \/ connect_return /\ UNCHANGED tvars
    \/ disconnect_call /\ UNCHANGED tvars
    \/ disconnect_return /\ UNCHANGED tvars
    \/ \E m \in OutMsgs : send_message_call(m) /\ UNCHANGED tvars
    \/ send_message_return /\ UNCHANGED tvars
    \/ listen_task_create /\ UNCHANGED tvars
    \/ listen_start /\ UNCHANGED tvars
    \/ listen_recv_message /\ UNCHANGED tvars
    \/ listen_send_return /\ UNCHANGED tvars
    \/ listen_recv_closed /\ UNCHANGED tvars
    \/ listen_task_cancel /\ UNCHANGED tvars
    \/ \E h \in Handles, x \in repertoire : peer_deliver(h, x) /\ UNCHANGED tvars
    \/ \E h \in Handles : peer_close(h) /\ UNCHANGED tvars

SpecSession == Init /\ [][NextSession]_vars

\* A step of the receive-loop task.
ListenerRuns ==
    /\ \/ listen_start
       \/ listen_recv_message
       \/ listen_send_return
       \/ listen_recv_closed
    /\ UNCHANGED tvars

\* The event loop runs a task that is ready (the receive loop is never
\* starved), and websocket.close() returns: the closing handshake is bounded
\* by the transport's close timeout. Nothing is assumed of the caller, of
\* listen_task.cancel() or of the peer.
SpecSessionFair ==
    /\ SpecSession
    /\ WF_vars(ListenerRuns)
    /\ WF_vars(disconnect_return /\ UNCHANGED tvars)

\* ---------------------------------------------------------------- client modes
\* run_demo lines 144-165 and main lines 167-200, one script per mode:
\* connect; on success create the receive loop task; send the test messages
\* (demo, test); interactive sends (demo, interactive); disconnect; cancel
\* the task. pcT is the script's position: start / connecting / tests /
\* interactive / closing / interrupted / exit. On Ctrl-C asyncio.run (line
\* 199) cancels the script's task where it is suspended: CancelledError,
\* which no `except Exception` catches, leaves the script, through
\* run_demo's finally in demo mode (interrupted); the receive loop task runs
\* on until asyncio.run cancels the tasks that are left (exit).
Modes == {"demo", "test", "interactive"}

\* send_test_messages lines 104-110 (the keys message and request_id, which
\* handle_message never reads, are left out).
demo_messages ==
    << DictMsg([EmptyDict EXCEPT !["type"] = S("greeting")]),
       DictMsg(Echo(S("Test echo message"))),
       DictMsg(Ping(S("2025-01-01T00:00:00Z"))),
       DictMsg([EmptyDict EXCEPT !["command"] = S("status")]),
       DictMsg([EmptyDict EXCEPT !["type"] = S("json_test"),
                                 !["data"] = D("{'nested': True, 'value': 42}")]) >>

\* lines 174-183, 146, 184, 191: main reads the mode and calls connect().
mode_connect_call ==
    /\ pcT = "start"
    /\ pcC = "idle"
    /\ mode' \in Modes
    /\ pcT' = "connecting"
    /\ pcC' = "connecting"
    /\ call' = "connect"
    /\ ret' = "-"
    /\ opens' = opens + 1
    /\ UNCHANGED <<websocket, running, handles, inbox, inflight, pcL, lh,
                   log, tries, disp, closeCalls, nCalls, repertoire, closedBy,
                   sent, pcW, responses, arrivals, got, waits, result>>

\* lines 146-151, 184-185, 191-192: connect returned; on True the receive
\* loop task is created and the mode's first phase begins, on False the
\* script ends.
mode_connect_return ==
    /\ pcT = "connecting"
    /\ pcC = "connecting"
    /\ \/ /\ ConnectSucceeded
          /\ pcT' = IF mode = "interactive" THEN "interactive" ELSE "tests"
          /\ pcL' = "created"
       \/ ConnectFailed /\ pcT' = "exit" /\ pcL' = pcL
    /\ UNCHANGED <<inflight, lh, call, tries, disp, closeCalls, nCalls,
                   repertoire, closedBy,
                   sent, pcW, responses, arrivals, got, mode, waits, result>>

\* send_test_messages lines 112-114: the next test message is sent.
mode_send_test_call ==
    /\ pcT = "tests"
    /\ pcC = "idle"
    /\ sent < Len(demo_messages)
    /\ sent' = sent + 1
    /\ call' = "send_message"
    /\ SendBegins("caller", demo_messages[sent + 1])
    /\ IF WriteSuspends
       THEN pcC' = "sending" /\ ret' = "-"
       ELSE pcC' = "idle" /\ ret' = SendResult(TRUE)
    /\ UNCHANGED <<websocket, running, handles, inbox, pcL, lh, disp, opens,
                   closeCalls, nCalls, repertoire, closedBy,
                   pcT, pcW, responses, arrivals, got, mode, waits, result>>

\* A phase of the script is over: all test messages were sent (lines
\* 155-158, 186-187), or the script is in interactive_mode, where the user
\* may quit at every prompt (lines 127-128).
PhaseOver ==
    /\ pcC = "idle"
    /\ \/ pcT = "interactive"
       \/ pcT = "tests" /\ sent = Len(demo_messages)

\* lines 161, 121-137: in demo mode interactive_mode follows the tests;
\* while running, a typed message is sent.
mode_interactive_send(m) ==
    /\ PhaseOver
    /\ mode \in {"demo", "interactive"}
    /\ running
    /\ nCalls < MaxCalls
    /\ nCalls' = nCalls + 1
    /\ pcT' = "interactive"
    /\ call' = "send_message"
    /\ SendBegins("caller", m)
    /\ IF WriteSuspends
       THEN pcC' = "sending" /\ ret' = "-"
       ELSE pcC' = "idle" /\ ret' = SendResult(TRUE)
    /\ UNCHANGED <<websocket, running, handles, inbox, pcL, lh, disp, opens,
                   closeCalls, repertoire, closedBy,
                   sent, pcW, responses, arrivals, got, mode, waits, result>>

\* lines 114-115, 137: send_message returned.
mode_send_return ==
    /\ pcT \in {"tests", "interactive"}
    /\ pcC = "sending"
    /\ SendEnds("caller")
    /\ pcC' = "idle"
    /\ ret' = SendResult(handles[inflight["caller"].h] # "open")
    /\ UNCHANGED <<websocket, running, handles, inbox, pcL, lh, call, disp,
                   opens, closeCalls, nCalls, repertoire, closedBy, tvars>>

\* The script's task is cancelled inside the try block of run_demo (lines
\* 150-161): in a sleep, at the prompt, or inside send_message.
DemoInterrupted == mode = "demo" /\ pcT \in {"tests", "interactive"}

\* lines 164, 188, 194: the call of disconnect() when the phases are over;
\* lines 163-164: run_demo's finally calls it also when CancelledError
\* leaves the try block, and a write the script was suspended in is
\* abandoned: it neither returns nor logs.
mode_disconnect_call ==
    /\ \/ PhaseOver /\ inflight' = inflight
       \/ DemoInterrupted /\ inflight' = [inflight EXCEPT !["caller"] = NoWrite]
    /\ DisconnectBegins
    /\ call' = "disconnect"
    /\ pcC' = "closing"
    /\ ret' = "-"
    /\ pcT' = "closing"
    /\ UNCHANGED <<inbox, pcL, lh, log, tries, disp, opens, nCalls,
                   repertoire, sent, pcW, responses, arrivals, got, mode, waits, result>>

\* listen_task.cancel() ends the task where it is suspended; a task that
\* has ended is left alone.
LoopAfterCancel == IF pcL \in {"created", "recv", "sending"} THEN "cancelled" ELSE pcL

\* lines 165, 189, 195.
LoopCancelled ==
    /\ pcL' = LoopAfterCancel
    /\ inflight' = [inflight EXCEPT !["listener"] = NoWrite]
    /\ inbox' = Forget(inbox, websocket, "cancelled", lh)

\* Where CancelledError leaves the script with no finally to run: in
\* connect (line 146 is outside the try block; lines 184, 191), in the
\* phases of the test and interactive modes (lines 186-187, 193), and in
\* disconnect (lines 164, 188, 194).
ScriptInterrupted ==
    \/ pcT = "connecting"
    \/ pcT \in {"tests", "interactive"} /\ mode # "demo"
    \/ pcT = "closing"

\* lines 164-165, 188-189, 194-195: disconnect returned, the task is
\* cancelled and the script ends. A script that CancelledError left ends
\* where it was: the call it was suspended in (connect, send, close) is
\* abandoned and disconnect is not called (in disconnect: does not return);
\* the receive loop task, if there is one, is not cancelled here and runs on.
mode_exit ==
    /\ \/ /\ pcT = "closing"
          /\ pcC = "closing"
          /\ DisconnectEnds
          /\ LoopCancelled
          /\ ret' = "None"
          /\ pcT' = "exit"
       \/ /\ ScriptInterrupted
          /\ inflight' = [inflight EXCEPT !["caller"] = NoWrite]
          /\ pcT' = "interrupted"
          /\ UNCHANGED <<websocket, running, handles, inbox, pcL, log, ret>>
    /\ pcC' = "idle"
    /\ UNCHANGED <<lh, call, tries, disp, opens, closeCalls, nCalls,
                   repertoire, closedBy,
                   sent, pcW, responses, arrivals, got, mode, waits, result>>

\* lines 199-200: after main was left by CancelledError, asyncio.run cancels
\* the tasks that are left, the receive loop among them, before it raises
\* KeyboardInterrupt and the process ends.
mode_run_cleanup ==
    /\ pcT = "interrupted"
    /\ LoopCancelled
    /\ pcT' = "exit"
    /\ UNCHANGED <<websocket, running, handles, pcC, lh, call, ret, log, tries,
                   disp, opens, closeCalls, nCalls, repertoire, closedBy,
                   sent, pcW, responses, arrivals, got, mode, waits, result>>

NextMode ==
    \/ mode_connect_call
    \/ mode_connect_return
    \/ mode_send_test_call
    \/ \E m \in OutMsgs : mode_interactive_send(m)
    \/ mode_send_return
    \/ mode_disconnect_call
    \/ mode_exit
    \/ mode_run_cleanup
    \/ listen_start /\ UNCHANGED tvars
    \/ listen_recv_message /\ UNCHANGED tvars
    \/ listen_send_return /\ UNCHANGED tvars
    \/ listen_recv_closed /\ UNCHANGED tvars
    \/ \E h \in Handles, x \in repertoire : peer_deliver(h, x) /\ UNCHANGED tvars
    \/ \E h \in Handles : peer_close(h) /\ UNCHANGED tvars

SpecMode == Init /\ [][NextMode]_vars

\* ---------------------------------------------------------------- claims
IsPing(m) == m.isdict /\ Get(m.d, "type") = S("ping")
IsEcho(m) == m.isdict /\ Get(m.d, "command") = S("echo")

\* The caller's step out of connect: websockets.connect returned or raised.
ConnectReturns == pcC = "connecting" /\ pcC' # "connecting"

\* C1: connect opens the transport once. When the open fails, connect returns
\* False and leaves websocket, running and every handle as they were (so a
\* client that was not connected stays not connected), with no further open;
\* when it succeeds, a newly opened handle is stored, running is True and
\* connect returns True.
C1_ConnectOutcome ==
    [][ /\ pcC = "connecting" => opens' = opens
        /\ ConnectReturns =>
             \/ /\ log'["caller"] = "Failed to connect"
                /\ ret' = "False"
                /\ pcC' = "idle"
                /\ websocket' = websocket
                /\ running' = running
                /\ handles' = handles
             \/ /\ log'["caller"] = "Connected to WebSocket server"
                /\ ret' = "True"
                /\ pcC' = "idle"
                /\ websocket' # None
                /\ handles[websocket'] = "unopened"
                /\ handles'[websocket'] = "open"
                /\ running' = TRUE ]_vars

C1_Witness ==
    /\ call = "connect"
    /\ pcC = "idle"
    /\ ret = "False"
    /\ opens = 1
    /\ websocket = None
    /\ ~running

SendFailed(t) == log[t] \in {"Not connected to server", "Failed to send message"}

\* C2: a send_message that failed (not connected, or the write failed) hands
\* a SendError to its caller. send_message catches every failure itself,
\* logs it and returns None, so no caller ever sees one.
C2_FailureSurfaced ==
    (call = "send_message" /\ pcC = "idle" /\ SendFailed("caller")) => ret = "SendError"

\* The caller's step into disconnect, and its step out of it.
DisconnectCalled == pcC = "idle" /\ call' = "disconnect" /\ nCalls' = nCalls + 1
DisconnectReturns == pcC = "closing" /\ pcC' = "idle"

\* C3 as stated: disconnect on a connection that an earlier disconnect already
\* closed performs no transport operation and changes no state.
C3_SecondDisconnectNoOp ==
    [][ (DisconnectCalled /\ websocket # None /\ ~running /\ handles[websocket] = "closed")
          => (closeCalls' = closeCalls /\ UNCHANGED <<websocket, running, handles>>) ]_vars

\* C3 amended: disconnect on a connection that an earlier disconnect already
\* closed calls websocket.close() once more, and leaves running, websocket and
\* every handle's state as they were: after any number of disconnect calls
\* the state is the one after the first.
C3_DisconnectIdempotent ==
    [][ /\ (DisconnectCalled /\ websocket # None /\ ~running /\ handles[websocket] = "closed")
            => (closeCalls' = closeCalls + 1 /\ UNCHANGED <<websocket, running, handles>>)
        /\ (DisconnectReturns /\ handles[websocket] = "closed")
            => UNCHANGED <<websocket, running, handles>> ]_vars

C3_Witness ==
    /\ call = "disconnect"
    /\ pcC = "idle"
    /\ opens = 1
    /\ closeCalls = 2
    /\ ~running
    /\ handles[websocket] = "closed"

\* C4 as stated: every dispatched ping has exactly one pong written to the
\* transport once its dispatch is over.
C4_PongAlwaysWritten ==
    (IsPing(disp.m) /\ disp.done) => disp.written = 1

\* C4 amended: every dispatched ping makes exactly one attempt to send a pong
\* (one send_message call, one websocket.send); the pong is written at most
\* once, namely when that write succeeds; and until the attempt is over the
\* loop reads no later inbound message.
C4_PongAttemptedOnce ==
    IsPing(disp.m) =>
        /\ disp.reply.isdict
        /\ disp.reply.d["type"] = S("pong")
        /\ tries["listener"] = 1
        /\ disp.written <= 1
        /\ ~disp.done => (disp.written = 0 /\ pcL \in {"sending", "cancelled"})
        /\ pcL = "sending" => inflight["listener"].text = EncodeMessage(disp.reply)

C4_Witness ==
    /\ IsPing(disp.m)
    /\ disp.done
    /\ disp.written = 1
    /\ pcL = "recv"
    /\ inbox[lh] # <<>>

\* C5: the pong carries the ping's timestamp when the ping has one, and has no
\* timestamp field when the ping has none.
C5_PongTimestamp ==
    IsPing(disp.m) =>
        EncodeMessage(disp.reply).d["timestamp"] = disp.m.d["timestamp"]

\* C6 as stated: every dispatched echo command (that is no ping) has exactly
\* one echo_response written once its dispatch is over.
C6_EchoAlwaysWritten ==
    (IsEcho(disp.m) /\ ~IsPing(disp.m) /\ disp.done) => disp.written = 1

\* C6 amended: every dispatched echo command with data D (that is no ping)
\* makes exactly one attempt to send {type: echo_response, original: D,
\* response: "Echo: " followed by str(D)}; it is written at most once, namely
\* when the write succeeds.
C6_EchoAttemptedOnce ==
    (IsEcho(disp.m) /\ ~IsPing(disp.m)) =>
        /\ EncodeMessage(disp.reply).kind = "obj"
        /\ EncodeMessage(disp.reply).d["type"] = S("echo_response")
        /\ EncodeMessage(disp.reply).d["original"] = disp.m.d["data"]
        /\ disp.m.d["data"] = S("D1") => EncodeMessage(disp.reply).d["response"] = S("Echo: D1")
        /\ disp.m.d["data"] = N(42) => EncodeMessage(disp.reply).d["response"] = S("Echo: 42")
        /\ EncodeMessage(disp.reply).d["timestamp"] = Absent
        /\ tries["listener"] = 1
        /\ disp.written <= 1
        /\ ~disp.done => disp.written = 0

C6_Witness ==
    /\ IsEcho(disp.m)
    /\ ~IsPing(disp.m)
    /\ disp.m.d["data"] = S("D1")
    /\ disp.done
    /\ disp.written = 1

\* C7: a dispatched message draws at most one reply, and a message that is
\* both a ping and an echo command is answered with a pong only.
C7_FirstMatchWins ==
    /\ tries["listener"] <= 1
    /\ disp.written <= 1
    /\ (IsPing(disp.m) /\ IsEcho(disp.m)) =>
          /\ disp.reply.d["type"] = S("pong")
          /\ disp.reply.d["original"] = Absent
          /\ disp.reply.d["response"] = Absent

C7_Witness ==
    /\ IsPing(disp.m)
    /\ IsEcho(disp.m)
    /\ disp.done
    /\ disp.written = 1

\* The receive loop's step in which recv returns the frame at the head of
\* the buffer.
RecvReturns ==
    /\ pcL = "recv"
    /\ pcL' # "cancelled"
    /\ inbox[lh] # <<>>
    /\ Len(inbox'[lh]) < Len(inbox[lh])

\* C8: a text frame json.loads does not parse (text that is not JSON, or an
\* integer of more digits than int() converts) is dispatched as the raw text
\* itself, draws no reply, and leaves the loop running: it goes on to the
\* next recv unless the loop condition (running, handle stored) has become
\* false.
C8_UnparsedTextKeepsLoop ==
    [][ (RecvReturns /\ Head(inbox[lh]).kind \in {"raw", "digits"}) =>
          /\ disp'.m = PlainMsg(Head(inbox[lh]).v)
          /\ disp'.reply = NoMsg
          /\ disp'.done
          /\ tries'["listener"] = 0
          /\ inflight' = inflight
          /\ log' = log
          /\ pcL' = IF running /\ websocket # None THEN "recv" ELSE "done" ]_vars

\* C9: once the loop has ended on a closure signalled by the transport, the
\* connection is no longer Connected: running is false and the handle closed.
C9_ClosureCleansUp ==
    (pcL = "done" /\ log["listener"] = "Connection closed by server") =>
        (~running /\ handles[lh] = "closed")

\* C10: at most one websocket.send is in flight at any time.
C10_OneWriteInFlight ==
    Cardinality({t \in Tasks : inflight[t] # NoWrite}) <= 1

\* The waits the collector has made so far.
Waits == 1..Len(test_messages)
Made(i) == i <= Len(waits)

\* C11 as stated: a timeout-bounded wait ends with a message, a timeout or a
\* closed connection, and with nothing else.
C11_ThreeOutcomes ==
    \A i \in Waits : Made(i) => waits[i] \in {"pending", "message", "timeout", "closed"}

\* C11: a wait_for(recv, timeout) never hangs: each wait the collector makes
\* eventually ends, with exactly one of a received message, a timeout, a
\* closed connection or, when the collecting task is cancelled first, a
\* cancellation; once ended, its outcome never changes.
C11_WaitEndsOnce ==
    /\ \A i \in Waits : (Made(i) /\ waits[i] = "pending") ~> (Made(i) /\ waits[i] # "pending")
    /\ [](\A i \in Waits : Made(i) =>
             waits[i] \in {"pending", "message", "timeout", "closed", "cancelled"})
    /\ [][\A i \in Waits : (Made(i) /\ waits[i] # "pending") =>
             (Len(waits') >= i /\ waits'[i] = waits[i])]_vars

\* One wait ended with a message, the next with a timeout.
C11_Witness ==
    /\ Len(waits) > 1
    /\ waits[1] = "message"
    /\ waits[Len(waits)] = "timeout"
    /\ pcW = "done"

\* The test has begun its teardown: listen_task.cancel() and disconnect.
TornDown == pcT \in {"teardown", "finished"} /\ call = "disconnect"

\* The collector task has ended.
CollectorOver == pcW \in {"none", "done", "failed", "cancelled"}

OutstandingAtTeardown == pcW = "cancelling" /\ WaitOpen

Consumed == {i \in Waits : Made(i) /\ waits[i] = "message"}

\* C13: every frame that arrives is delivered to exactly one of a wait and
\* the dispatcher, and a frame a wait consumed draws no pong or
\* echo_response. test_message_exchange reads the socket itself and never
\* starts listen_for_messages: once its collector is over, a frame that
\* arrived and that no wait consumed has reached neither.
C13_ExactlyOneConsumer ==
    /\ Consumed # {} => (disp = NoDispatch /\ tries["listener"] = 0)
    /\ (pcT = "finished" /\ CollectorOver) => Len(arrivals) = Cardinality(Consumed)

\* C14: the collector gathers the responses in the order the frames arrived
\* and never more than the number of test messages; when a wait times out (or
\* the collector is cancelled) with fewer, the responses gathered so far are
\* kept and the test still reports; it reports success exactly when as many
\* responses are collected, at the time it reports, as messages were to be
\* sent.
C14_CollectUpToN ==
    /\ [](/\ Len(responses) <= Len(test_messages)
          /\ Len(responses) <= Len(arrivals)
          /\ \A i \in 1..Len(responses) : responses[i] = DecodeText(arrivals[i])
          /\ pcW \notin {"failed", "received"} => Len(responses) = Cardinality(Consumed)
          /\ pcW \in {"failed", "received"} => Len(responses) >= Cardinality(Consumed) - 1
          /\ pcT = "finished" <=> result # "-"
          /\ result = "True" => Len(responses) = Len(test_messages))
    /\ [][ /\ Len(responses') >= Len(responses)
           /\ \A i \in 1..Len(responses) : responses'[i] = responses[i]
           /\ (pcT = "teardown" /\ pcT' = "finished") =>
                  (result' = "True" <=> Len(responses) = Len(test_messages))
           /\ result # "-" => result' = result ]_vars

\* A wait timed out after some, but not all, responses: the partial list,
\* two different frames in the order they arrived, is kept and the test
\* reports failure. Two more frames were buffered together and never read.
C14_Witness ==
    /\ pcT = "finished"
    /\ result = "False"
    /\ pcW = "done"
    /\ waits[Len(waits)] = "timeout"
    /\ Len(responses) > 1
    /\ responses[1] # responses[2]
    /\ Len(inbox[websocket]) = 2
    /\ Len(responses) < Len(test_messages)
    /\ \E i \in 2..Len(responses) : responses[i] # responses[1]

\* The connection is in its Connected state: a handle is stored, it is open
\* and disconnect has not been called on it.
Connected == websocket # None /\ running /\ handles[websocket] = "open"

\* The caller's step into send_message.
SendCalled == pcC = "idle" /\ call' = "send_message" /\ nCalls' = nCalls + 1

\* C15: send_message attempts a write on the transport handle only while the
\* connection is Connected; called in any other state (after disconnect has
\* completed, after the peer closed) it calls websocket.send not at all.
C15_WriteOnlyWhileConnected ==
    [][(SendCalled /\ ~Connected) => tries'["caller"] = 0]_vars

\* The handles that were opened and are not closed yet.
LiveHandles == {h \in Handles : handles[h] \in {"open", "closing"}}

\* C16: a client holds at most one live transport handle in every reachable
\* state, also when connect is called again while it is connected.
C16_OneLiveHandle == Cardinality(LiveHandles) <= 1

\* C17: the receive loop records "Connection closed by server" only when the
\* peer closed the connection; when the loop ends because the caller called
\* disconnect, also with a read outstanding, that line is never logged.
C17_ServerCloseLoggedOnlyForPeer ==
    (pcL = "done" /\ log["listener"] = "Connection closed by server") => closedBy[lh] = "peer"

\* The receive loop's step in which the write of an auto-reply fails: at once
\* (websocket.send raises without suspending) or after it was suspended.
ReplyWriteFails ==
    \/ RecvReturns /\ HandleReply(DecodeText(Head(inbox[lh]))) # NoMsg /\ ~WriteSuspends
    \/ /\ pcL = "sending"
       /\ pcL' \notin {"sending", "cancelled"}
       /\ handles[inflight["listener"].h] # "open"

\* C18: a failed write of a pong or echo_response is contained: it is logged,
\* nothing is written, handle_message returns, and the loop goes back to its
\* loop condition: it reads the next message unless running or the handle
\* was cleared meanwhile.
C18_ReplyFailureContained ==
    [][ ReplyWriteFails =>
          /\ log'["listener"] = "Failed to send message"
          /\ disp'.done
          /\ disp'.written = 0
          /\ tries'["listener"] = 1
          /\ inflight'["listener"] = NoWrite
          /\ pcL' = IF running /\ websocket # None THEN "recv" ELSE "done"
          /\ pcL' = "recv" => lh' = websocket ]_vars

\* After a reply's write failed the loop has read and dispatched the next
\* message, a greeting, and is waiting for another.
C18_Witness ==
    /\ log["listener"] = "Failed to send message"
    /\ disp.m = DecodeText(Greeting)
    /\ disp.done
    /\ pcL = "recv"

\* C19: the receive loop dispatches the inbound messages in the order they
\* were received, one at a time: recv returns the frame buffered longest, and
\* it is called again only after the dispatch of the previous message, its
\* auto-reply send included, is over. (A frame json.loads raises an error
\* other than JSONDecodeError on is dispatched not at all: the loop ends.)
C19_DispatchInOrderOneAtATime ==
    /\ [](inflight["listener"] # NoWrite => (pcL = "sending" /\ ~disp.done))
    /\ [](pcL = "recv" => disp.done)
    /\ [][ RecvReturns =>
             /\ disp.done
             /\ inflight["listener"] = NoWrite
             /\ IF LoadsRaises(inbox[lh][1])
                THEN disp' = disp /\ pcL' = "done"
                ELSE disp'.m = DecodeText(inbox[lh][1])
             /\ inbox'[lh] \in {Tail(inbox[lh]), <<>>}
             /\ inbox'[lh] # Tail(inbox[lh]) => ~Followed(lh, websocket', pcL', lh') ]_vars

\* A ping was dispatched and its pong written; only then the next message, a
\* greeting, was read and dispatched. Two different frames are buffered now,
\* and recv will return the older one.
C19_Witness ==
    /\ log["listener"] = "Sent"
    /\ disp.m = DecodeText(Greeting)
    /\ disp.done
    /\ pcL = "recv"
    /\ Len(inbox[lh]) = 2
    /\ inbox[lh][1] # inbox[lh][2]

\* C20: a message handed to handle_message that matches neither rule (another
\* discriminator, none, or not a dict at all) draws no protocol action:
\* handle_message calls
\* send_message not at all, nothing is written or logged, and the connection
\* (handle stored, running, the handles' states) is left as it was.
C20_NoMatchNoAction ==
    [][ (RecvReturns /\ ~LoadsRaises(Head(inbox[lh]))
                     /\ ~IsPing(DecodeText(Head(inbox[lh])))
                     /\ ~IsEcho(DecodeText(Head(inbox[lh])))) =>
          /\ disp' = [m |-> DecodeText(Head(inbox[lh])), reply |-> NoMsg,
                      written |-> 0, done |-> TRUE]
          /\ tries'["listener"] = 0
          /\ UNCHANGED <<inflight, log, websocket, running, handles, closedBy,
                         closeCalls, opens>> ]_vars

\* A status command (a discriminator no rule matches) was dispatched: no
\* send_message call, and the loop waits for the next message.
C20_Witness ==
    /\ disp.m = DictMsg([EmptyDict EXCEPT !["command"] = S("status")])
    /\ disp.reply = NoMsg
    /\ tries["listener"] = 0
    /\ log["listener"] = "-"
    /\ pcL = "recv"
    /\ running

\* The receive-loop task exists and has not ended.
LoopLive == pcL \in {"created", "recv", "sending"}

\* C21: once the caller has invoked disconnect on the connection, the receive
\* loop eventually terminates, without being cancelled if need be: a read
\* that is outstanding is ended by the close (or returns a frame that was
\* buffered), and from the disconnect call on the loop starts no other read.
C21_LoopEndsAfterDisconnect ==
    /\ (closeCalls > 0 /\ LoopLive) ~> ~LoopLive
    /\ [][(closeCalls > 0 /\ pcL # "recv") => pcL' # "recv"]_vars
    /\ [][(closeCalls > 0 /\ pcL = "recv" /\ pcL' = "recv") => UNCHANGED <<lh, disp>>]_vars

\* The loop was waiting in recv when the caller disconnected; the close ended
\* the read and the loop terminated by itself.
C21_Witness ==
    /\ closeCalls > 0
    /\ pcL = "done"
    /\ lh # None
    /\ closedBy[lh] = "client"
    /\ handles[lh] = "closed"
    /\ log["listener"] = "Connection closed by server"
    /\ ~running

\* C22: in a client mode the receive-loop task exists and a message is sent
\* only after connect returned success; when connect failed, the run ends
\* with no message sent and no task; a run that connected ends only after it
\* called disconnect and then cancelled the task, so at exit no receive-loop
\* task is left running and the task is cancelled only after disconnect was
\* called.
C22_ModeScriptOrder ==
    /\ (pcL # "none" \/ call = "send_message" \/ sent > 0 \/ nCalls > 0) =>
           (websocket # None /\ opens = 1 /\ log["caller"] # "Failed to connect")
    /\ (pcT = "exit" /\ websocket = None) =>
           /\ pcL = "none"
           /\ tries["caller"] = 0
           /\ closeCalls = 0
    /\ (pcT = "exit" /\ websocket # None) =>
           /\ closeCalls = 1
           /\ pcL \in {"done", "cancelled"}
    /\ pcL = "cancelled" => (pcT = "exit" /\ closeCalls = 1)
    /\ closeCalls > 0 => pcT \in {"closing", "interrupted", "exit"}

====
